---- MODULE Spec2Model ----
(***************************************************************************)
(* Weekend Radar deal fetcher (fetch_deals.py): the batch run save_data,   *)
(* its five fetchers, the Amadeus token step, the deal scorer and the      *)
(* weekend date computation.                                               *)
(*                                                                         *)
(* Conventions.  Money is an integer number of cents.  A calendar date is  *)
(* a day number whose weekday is (day % 7) with 0 = Monday, as Python's    *)
(* datetime.weekday(); strftime("%Y-%m-%d") is injective on days, so a     *)
(* formatted date is represented by its day number.  Timestamps            *)
(* (foundAt, lastUpdated) are not modelled.  A place rating is kept in     *)
(* tenths of a star.                                                       *)
(***************************************************************************)
EXTENDS Integers, Sequences, FiniteSets, TLC

VARIABLES
    env,        \* which credentials are non-empty in the environment
    today,      \* the day datetime.now() falls on
    pc,         \* position of the run inside save_data
    token,      \* what get_amadeus_token returned
    loop,       \* index of the current request inside the running fetcher
    acc,        \* the list the running fetcher is collecting (deals, events, ...)
    inflight,   \* HTTP requests issued and not yet answered
    nreq,       \* HTTP requests issued so far
    quota,      \* non-empty payloads the upstreams will still deliver
    lastStep,   \* the last flight search processed: triple, response, outcome
    out,        \* what each fetcher returned
    files,      \* the documents written so far, in order
    log,        \* fetcher calls and returns and file writes, in order
    calc        \* results of the pure routines (scorer, weekend dates)

vars == <<env, today, pc, token, loop, acc, inflight, nreq, quota, lastStep, out, files, log, calc>>

----------------------------------------------------------------------------
(* Bounds of the model *)

\* destinations searched per origin: the first NumDests of DESTINATIONS
NumDests == 2
\* non-empty payloads the flight search delivers when fetch_flights is run on its own
MaxLive == 2
\* non-empty payloads all upstreams together deliver in one run of save_data
RunLive == 1
\* largest offer price, in cents, given to the scorer on its own
MaxPriceCents == 300
\* largest day number given to the weekend computation on its own
MaxDay == 20

(* Program constants *)

NumWeekends == 2
MarkupPct == 140
HotThreshold == 35
MaxReturned == 50
HttpOk == 200

ORIGINS == <<"LAX", "ONT", "SNA">>

DESTINATIONS == <<"LAS", "SFO", "PHX", "SEA", "DEN", "SAN", "PDX",
                  "SLC", "BOS", "NYC", "MIA", "AUS", "CHI", "ATL",
                  "HNL", "OGG", "LIH">>

EVENT_CITIES == <<"Las Vegas", "San Francisco", "Phoenix", "San Diego", "Seattle">>

PLACE_CITIES == <<"Las Vegas", "San Francisco", "Phoenix">>

Dests == SubSeq(DESTINATIONS, 1, IF NumDests < Len(DESTINATIONS) THEN NumDests ELSE Len(DESTINATIONS))

None == "None"

----------------------------------------------------------------------------
(* Weekend dates *)

Weekday(d) == d % 7

\* fetch_flights: (4 - weekday) % 7, then 0 replaced by 7
DaysToFridaySkipToday(d) ==
    LET days_to_friday == (4 - Weekday(d)) % 7
    IN  days_to_friday

DaysToFriday(d) ==
    LET days_to_friday == (4 - Weekday(d)) % 7
    IN  IF days_to_friday = 0 THEN 7 ELSE days_to_friday

\* week is 1-based, as range(1, 3)
LiveFriday(d, week) == d + DaysToFriday(d) + (week - 1) * 7

LiveSunday(d, week) == LiveFriday(d, week) + 2

\* Python's `x or 7`: x unless x is falsy (0)
PyOr(x, y) == IF x # 0 THEN x ELSE y

\* generate_sample_flights
SampleFriday(d) == d + PyOr((4 - Weekday(d)) % 7, 7)

SampleSunday(d) == SampleFriday(d) + 2

\* fetch_hotels
HotelFriday(d) == d + PyOr((4 - Weekday(d)) % 7, 7)

HotelSunday(d) == HotelFriday(d) + 2

----------------------------------------------------------------------------
(* Deal scorer.  Python's round() rounds an exact half to the even         *)
(* neighbour; RoundHalfEven(n, d) is round(n / d) for n >= 0, d > 0.       *)

RoundHalfEven(n, d) ==
    LET q == n \div d
        r == n % d
    IN  IF 2 * r > d THEN q + 1
        ELSE IF 2 * r < d THEN q
        ELSE IF q % 2 = 0 THEN q ELSE q + 1

\* round(price * 1.40, 2), in cents
OriginalOfMarkup(price, pct) == RoundHalfEven(price * pct, 100)

OriginalOf154(price) == OriginalOfMarkup(price, 154)

OriginalOf(price) == OriginalOfMarkup(price, MarkupPct)

\* round(original - price, 2), in cents
SavingsOf(price) == OriginalOf(price) - price

ScoreRaises(price) == OriginalOf(price) = 0

\* round((savings / original) * 100); a zero original raises ZeroDivisionError
SavingsPctOf(price) == RoundHalfEven(100 * SavingsOf(price), OriginalOf(price))

IsHot(pct) == pct >= HotThreshold

----------------------------------------------------------------------------
(* Fixed sample and curated data *)

SampleFlight(o, d, price, original, airline, savings, pct, day) ==
    [origin |-> o, destination |-> d, price |-> price, originalPrice |-> original,
     airline |-> airline, departureDate |-> SampleFriday(day),
     returnDate |-> SampleSunday(day), savings |-> savings, savingsPercent |-> pct,
     isHot |-> TRUE, bookingUrl |-> [route |-> <<o, d>>, dates |-> <<>>]]

generate_sample_flights(day) ==
    << SampleFlight("LAX", "LAS", 8900, 15600, "Spirit", 6700, 43, day),
       SampleFlight("ONT", "SFO", 12400, 19800, "United", 7400, 37, day),
       SampleFlight("SNA", "PHX", 6700, 13400, "American", 6700, 50, day) >>

Hotel(name, city, price, original, stars, ratingTenths, reviews, savings, pct, day) ==
    [name |-> name, city |-> city, pricePerNight |-> price, originalPrice |-> original,
     starRating |-> stars, userRating |-> ratingTenths, reviewCount |-> reviews,
     checkIn |-> HotelFriday(day), checkOut |-> HotelSunday(day),
     savings |-> savings, savingsPercent |-> pct]

fetch_hotels(day) ==
    << Hotel("The Venetian Resort", "Las Vegas", 15900, 28900, 5, 47, 12500, 13000, 45, day),
       Hotel("Hilton San Francisco Union Square", "San Francisco", 18900, 31200, 4, 43,
             8900, 12300, 39, day) >>

EventRec(name, city, venue, date, time, pmin, pmax, category, url, image) ==
    [name |-> name, city |-> city, venue |-> venue, date |-> date, time |-> time,
     priceMin |-> pmin, priceMax |-> pmax, category |-> category, url |-> url,
     imageUrl |-> image]

generate_sample_events(day) ==
    << EventRec("Cirque du Soleil - O", "Las Vegas", "Bellagio Hotel", day + 7, "19:30",
                9900, 25000, "Arts & Theatre", "https://www.ticketmaster.com", ""),
       EventRec("Lakers vs Warriors", "San Francisco", "Chase Center", day + 10, "19:00",
                15000, 80000, "Sports", "https://www.ticketmaster.com", "") >>

----------------------------------------------------------------------------
(* Upstream answers.  A response either fails at transport level (err),    *)
(* or carries a status and a body that is JSON or not.                     *)

Resp(err, status, json, data) == [err |-> err, status |-> status, json |-> json, data |-> data]

Transport == Resp(TRUE, 0, FALSE, <<>>)
HttpError == Resp(FALSE, 500, TRUE, <<>>)
BadJson == Resp(FALSE, HttpOk, FALSE, <<>>)
Body(data) == Resp(FALSE, HttpOk, TRUE, data)

\* a flight offer: price.total (a whole number of cents) and validatingAirlineCodes
Offer(hasTotal, total, airlines) == [hasTotal |-> hasTotal, total |-> total, airlines |-> airlines]

OfferPrices == {0, 143, 9900}

FlightResponses ==
    {Transport, HttpError, BadJson, Body(<<>>),
     Body(<<Offer(FALSE, 0, <<"NK">>)>>),
     Body(<<Offer(TRUE, 9900, <<>>)>>)}
    \cup {Body(<<Offer(TRUE, p, <<"NK">>)>>) : p \in OfferPrices}
    \cup {Body(<<Offer(TRUE, 143, <<"UA">>), Offer(TRUE, 9900, <<"NK">>)>>)}

\* the token endpoint's body: the access_token field, when present
TokenBody(hasField, value) == [hasField |-> hasField, value |-> value]

TokenResponses ==
    {Transport, HttpError, Resp(FALSE, 401, TRUE, <<>>), BadJson,
     Body(TokenBody(FALSE, "")), Body(TokenBody(TRUE, "")), Body(TokenBody(TRUE, "tok"))}

\* a non-empty payload: one of the MaxLive the upstreams deliver
IsPayload(r) == ~r.err /\ r.status = HttpOk /\ r.json /\ r.data # <<>>

----------------------------------------------------------------------------
(* get_amadeus_token *)

HasAmadeusKeys == env.amadeusKey /\ env.amadeusSecret

\* requests.post and response.json()["access_token"] are outside any try
TokenRaises(r) ==
    \/ r.err
    \/ r.status = HttpOk /\ ~r.json
    \/ r.status = HttpOk /\ r.json /\ ~r.data.hasField

TokenOf(r) == IF r.status = HttpOk THEN r.data.value ELSE None

\* `not token`
Falsy(t) == t = None \/ t = ""

----------------------------------------------------------------------------
(* fetch_flights: the weekend x origin x destination grid *)

NumTriples == NumWeekends * Len(ORIGINS) * Len(Dests)

WeekOf(i) == ((i - 1) \div (Len(ORIGINS) * Len(Dests))) + 1
OriginOf(i) == ORIGINS[(((i - 1) \div Len(Dests)) % Len(ORIGINS)) + 1]
DestOf(i) == Dests[((i - 1) % Len(Dests)) + 1]

\* the body of the try block for one response: does it raise?
RouteRaises(r) ==
    \/ r.err
    \/ r.status = HttpOk /\ ~r.json
    \/ /\ r.status = HttpOk /\ r.json /\ r.data # <<>>
       /\ \/ ~r.data[1].hasTotal
          \/ r.data[1].airlines = <<>>
          \/ ScoreRaises(r.data[1].total)

\* the record appended for the first offer of a response
LiveDeal(i, best, day) ==
    [origin |-> OriginOf(i), destination |-> DestOf(i), price |-> best.total,
     originalPrice |-> OriginalOf(best.total), airline |-> best.airlines[1],
     departureDate |-> LiveFriday(day, WeekOf(i)),
     returnDate |-> LiveSunday(day, WeekOf(i)),
     savings |-> SavingsOf(best.total),
     savingsPercent |-> SavingsPctOf(best.total),
     isHot |-> IsHot(SavingsPctOf(best.total)),
     bookingUrl |-> [route |-> <<OriginOf(i), DestOf(i)>>,
                     dates |-> <<LiveFriday(day, WeekOf(i)), LiveSunday(day, WeekOf(i))>>]]

\* what one response adds to deals
RouteDeals(i, r, day) ==
    IF ~RouteRaises(r) /\ r.status = HttpOk /\ r.data # <<>>
    THEN <<LiveDeal(i, r.data[1], day)>>
    ELSE <<>>

\* the triple searched after triple i was answered with r: the except clause
\* continues with the next one
AfterRouteBreak(i, r) == IF RouteRaises(r) THEN NumTriples + 1 ELSE i + 1

AfterRoute(i, r) == i + 1

\* deals.sort(key=savingsPercent, reverse=True): stable
RECURSIVE InsertDesc(_, _)
InsertDesc(s, x) ==
    IF s = <<>> THEN <<x>>
    ELSE IF s[Len(s)].savingsPercent >= x.savingsPercent THEN Append(s, x)
    ELSE Append(InsertDesc(SubSeq(s, 1, Len(s) - 1), x), s[Len(s)])

RECURSIVE SortDesc(_)
SortDesc(s) ==
    IF s = <<>> THEN <<>>
    ELSE InsertDesc(SortDesc(SubSeq(s, 1, Len(s) - 1)), s[Len(s)])

Take(s, n) == SubSeq(s, 1, IF Len(s) < n THEN Len(s) ELSE n)

\* deals[:50] if deals else generate_sample_flights()
FlightsResult(deals, day) ==
    IF deals # <<>> THEN Take(SortDesc(deals), MaxReturned) ELSE generate_sample_flights(day)

----------------------------------------------------------------------------
(* fetch_events: one upstream event is the set of fields it carries.       *)
(* "emptyPriceRanges" is a priceRanges list that is present and empty.     *)

UpEvent(name, has) == [name |-> name, has |-> has]

AllEventFields == {"name", "venue", "date", "time", "priceRanges", "segment", "url", "images"}

FullEvent == UpEvent("Show A", AllEventFields)
BareEvent == UpEvent("Show B", {"name", "venue", "date"})
NoVenueEvent == UpEvent("Show C", AllEventFields \ {"venue"})

EventResponses ==
    {Transport, HttpError, BadJson, Body(<<>>),
     Body(<<FullEvent>>), Body(<<BareEvent>>),
     Body(<<NoVenueEvent, FullEvent>>), Body(<<FullEvent, NoVenueEvent>>)}

\* event["name"], event["_embedded"]["venues"][0]["name"] and
\* event["dates"]["start"]["localDate"] are subscripts; [][0] is an IndexError
EventRaises(e) ==
    \/ "name" \notin e.has
    \/ "venue" \notin e.has
    \/ "date" \notin e.has
    \/ "emptyPriceRanges" \in e.has

Get(e, field, value, default) == IF field \in e.has THEN value ELSE default

NormalizeEvent(e, city) ==
    EventRec(e.name, city, "Arena", 25,
             Get(e, "time", "20:00", "TBD"),
             Get(e, "priceRanges", 5000, 0),
             Get(e, "priceRanges", 9000, 0),
             Get(e, "segment", "Music", "Event"),
             Get(e, "url", "https://tm/e", ""),
             Get(e, "images", "https://tm/i.png", ""))

\* the for loop over one city's events: appends until an event raises
RECURSIVE CityEvents(_, _)
CityEvents(evs, city) ==
    IF evs = <<>> \/ EventRaises(evs[1]) THEN <<>>
    ELSE <<NormalizeEvent(evs[1], city)>> \o CityEvents(Tail(evs), city)

\* requests.get, response.json() and the loop are all inside the city's try
EventsOfResponse(r, city) ==
    IF ~r.err /\ r.status = HttpOk /\ r.json THEN CityEvents(r.data, city) ELSE <<>>

\* events if events else generate_sample_events()
EventsResult(events, day) == IF events # <<>> THEN events ELSE generate_sample_events(day)

----------------------------------------------------------------------------
(* fetch_dining_foursquare / fetch_bars_foursquare *)

UpPlace(name, has) == [name |-> name, has |-> has]

AllPlaceFields == {"name", "location", "locality", "rating", "price", "categories", "stats", "fsq_id"}

FullPlace == UpPlace("Place A", AllPlaceFields)
NoPricePlace == UpPlace("Place B", AllPlaceFields \ {"price", "locality"})
NoIdPlace == UpPlace("Place C", AllPlaceFields \ {"fsq_id"})

PlaceResponses ==
    {Transport, HttpError, BadJson, Body(<<>>),
     Body(<<FullPlace>>), Body(<<NoPricePlace>>), Body(<<NoIdPlace, FullPlace>>)}

PlaceRaises(p) == "name" \notin p.has \/ "location" \notin p.has \/ "fsq_id" \notin p.has

\* "$" * n
RECURSIVE Dollars(_)
Dollars(n) == IF n <= 0 THEN <<>> ELSE <<"$">> \o Dollars(n - 1)

\* upstream rating 8.6 of 10 is 86 tenths; halved: 43 tenths of 5
NormalizePlace(p, city, kind) ==
    [name |-> p.name,
     location |-> Get(p, "locality", "Downtown", city),
     rating |-> Get(p, "rating", 86, 0) \div 2,
     priceLevel |-> Dollars(Get(p, "price", 3, 2)),
     categories |-> Take(Get(p, "categories", <<"Steakhouse", "Bar", "Lounge">>, <<>>), 2),
     reviewCount |-> Get(p, "stats", 120, 0),
     url |-> <<"https://foursquare.com/v/", p.name>>,
     type |-> kind]

RECURSIVE CityPlaces(_, _, _)
CityPlaces(ps, city, kind) ==
    IF ps = <<>> \/ PlaceRaises(ps[1]) THEN <<>>
    ELSE <<NormalizePlace(ps[1], city, kind)>> \o CityPlaces(Tail(ps), city, kind)

PlacesOfResponse(r, city, kind) ==
    IF ~r.err /\ r.status = HttpOk /\ r.json THEN CityPlaces(r.data, city, kind) ELSE <<>>

----------------------------------------------------------------------------
(* save_data: the order of the fetchers and of the documents *)

FetcherOrder == <<"flights", "hotels", "events", "dining", "bars">>

OutputFilesMetadataFirst ==
    <<"metadata.json", "deals_data.json", "hotels_data.json", "events_data.json",
      "dining_data.json", "bars_data.json">>

OutputFiles ==
    <<"deals_data.json", "hotels_data.json", "events_data.json", "dining_data.json",
      "bars_data.json", "metadata.json">>

MetadataMiscounted(o) ==
    [totalFlights |-> Len(o.flights), totalHotels |-> Len(o.hotels),
     totalEvents |-> Len(o.flights), totalDining |-> Len(o.dining),
     totalBars |-> Len(o.bars), origins |-> ORIGINS, destinations |-> DESTINATIONS]

Metadata(o) ==
    [totalFlights |-> Len(o.flights), totalHotels |-> Len(o.hotels),
     totalEvents |-> Len(o.events), totalDining |-> Len(o.dining),
     totalBars |-> Len(o.bars), origins |-> ORIGINS, destinations |-> DESTINATIONS]

\* the document json.dump writes to each file
Document(name, o) ==
    CASE name = "deals_data.json" -> o.flights
      [] name = "hotels_data.json" -> o.hotels
      [] name = "events_data.json" -> o.events
      [] name = "dining_data.json" -> o.dining
      [] name = "bars_data.json" -> o.bars
      [] OTHER -> Metadata(o)

RECURSIVE IndexOf(_, _)
IndexOf(seq, x) == IF seq[Len(seq)] = x THEN Len(seq) ELSE IndexOf(SubSeq(seq, 1, Len(seq) - 1), x)

\* where save_data goes when a fetcher returns
AfterFetcher(name) ==
    IF IndexOf(FetcherOrder, name) < Len(FetcherOrder)
    THEN FetcherOrder[IndexOf(FetcherOrder, name) + 1]
    ELSE "write"

----------------------------------------------------------------------------
(* State *)

NoStep == [i |-> 0, resp |-> Transport, before |-> 0]

NoCalc == [price |-> -1, scored |-> FALSE, deals |-> <<>>,
           liveDates |-> <<>>, sampleDates |-> <<>>, hotelDates |-> <<>>]

NoOut == [ret |-> {}, flights |-> <<>>, hotels |-> <<>>, events |-> <<>>,
          dining |-> <<>>, bars |-> <<>>]

Envs == [amadeusKey : BOOLEAN, amadeusSecret : BOOLEAN, ticketmaster : BOOLEAN,
         foursquare : BOOLEAN]

\* a Wednesday and a Friday
Todays == {2, 4}

Start(e, d, q, c) ==
    /\ env = e
    /\ today = d
    /\ pc = FetcherOrder[1]
    /\ token = None
    /\ loop = [i |-> 0, ok |-> 0]
    /\ acc = <<>>
    /\ inflight = 0
    /\ nreq = 0
    /\ quota = q
    /\ lastStep = NoStep
    /\ out = NoOut
    /\ files = <<>>
    /\ log = <<>>
    /\ calc = c

\* save_data is entered with any combination of credentials
Init == \E e \in Envs, d \in Todays : Start(e, d, RunLive, NoCalc)

\* fetch_flights on its own: the other fetchers' credentials play no part
InitFlights ==
    \E e \in Envs, d \in Todays :
        ~e.ticketmaster /\ ~e.foursquare /\ Start(e, d, MaxLive, NoCalc)

\* a fetcher returns `result` to save_data; `entries` are logged before the return
Return(name, result, entries) ==
    /\ out' = [out EXCEPT ![name] = result, !.ret = @ \cup {name}]
    /\ log' = log \o entries \o << <<"ret", name>> >>
    /\ pc' = AfterFetcher(name)

\* the locals of the fetcher that returned last are gone
Forget == loop' = [i |-> 0, ok |-> 0] /\ acc' = <<>> /\ lastStep' = NoStep

Issue == inflight' = inflight + 1 /\ nreq' = nreq + 1

Answer(r) ==
    /\ inflight' = inflight - 1
    /\ IsPayload(r) => quota > 0
    /\ quota' = IF IsPayload(r) THEN quota - 1 ELSE quota

----------------------------------------------------------------------------
(* fetch_flights *)

FetchFlightsStart ==
    /\ pc = "flights"
    /\ IF ~HasAmadeusKeys
       THEN /\ token' = None
            /\ Return("flights", generate_sample_flights(today), << <<"call", "flights">> >>)
            /\ UNCHANGED <<inflight, nreq>>
       ELSE /\ Issue
            /\ pc' = "token_wait"
            /\ log' = Append(log, <<"call", "flights">>)
            /\ UNCHANGED <<token, out>>
    /\ UNCHANGED <<env, today, loop, acc, quota, lastStep, files, calc>>

TokenResponse ==
    /\ pc = "token_wait"
    /\ \E r \in TokenResponses :
        /\ inflight' = inflight - 1
        /\ IF TokenRaises(r)
           THEN /\ pc' = "crashed"
                /\ log' = Append(log, <<"raise", "flights">>)
                /\ UNCHANGED <<token, loop, acc, out>>
           ELSE IF Falsy(TokenOf(r))
           THEN /\ token' = TokenOf(r)
                /\ Return("flights", generate_sample_flights(today), <<>>)
                /\ UNCHANGED <<loop, acc>>
           ELSE /\ token' = TokenOf(r)
                /\ loop' = [i |-> 1, ok |-> 0]
                /\ acc' = <<>>
                /\ pc' = "route_req"
                /\ UNCHANGED <<out, log>>
    /\ UNCHANGED <<env, today, nreq, quota, lastStep, files, calc>>

FlightRequest ==
    /\ pc = "route_req"
    /\ loop.i <= NumTriples
    /\ Issue
    /\ pc' = "route_wait"
    /\ UNCHANGED <<env, today, token, loop, acc, quota, lastStep, out, files, log, calc>>

FlightResponse ==
    /\ pc = "route_wait"
    /\ \E r \in FlightResponses :
        /\ Answer(r)
        /\ acc' = acc \o RouteDeals(loop.i, r, today)
        /\ loop' = [i |-> AfterRoute(loop.i, r),
                    ok |-> IF IsPayload(r) /\ ~RouteRaises(r) THEN loop.ok + 1 ELSE loop.ok]
        /\ lastStep' = [i |-> loop.i, resp |-> r, before |-> Len(acc)]
    /\ pc' = "route_req"
    /\ UNCHANGED <<env, today, token, nreq, out, files, log, calc>>

FlightsReturn ==
    /\ pc = "route_req"
    /\ loop.i > NumTriples
    /\ Return("flights", FlightsResult(acc, today), <<>>)
    /\ UNCHANGED <<env, today, token, loop, acc, inflight, nreq, quota, lastStep, files, calc>>

NextFlights ==
    \/ FetchFlightsStart
    \/ TokenResponse
    \/ FlightRequest
    \/ FlightResponse
    \/ FlightsReturn

----------------------------------------------------------------------------
(* fetch_hotels *)

FetchHotels ==
    /\ pc = "hotels"
    /\ Return("hotels", fetch_hotels(today), << <<"call", "hotels">> >>)
    /\ Forget
    /\ UNCHANGED <<env, today, token, inflight, nreq, quota, files, calc>>

----------------------------------------------------------------------------
(* fetch_events *)

FetchEventsStart ==
    /\ pc = "events"
    /\ IF ~env.ticketmaster
       THEN /\ Return("events", generate_sample_events(today), << <<"call", "events">> >>)
            /\ Forget
       ELSE /\ loop' = [i |-> 1, ok |-> 0]
            /\ acc' = <<>>
            /\ lastStep' = NoStep
            /\ pc' = "events_req"
            /\ log' = Append(log, <<"call", "events">>)
            /\ UNCHANGED out
    /\ UNCHANGED <<env, today, token, inflight, nreq, quota, files, calc>>

EventsRequest ==
    /\ pc = "events_req"
    /\ loop.i <= Len(EVENT_CITIES)
    /\ Issue
    /\ pc' = "events_wait"
    /\ UNCHANGED <<env, today, token, loop, acc, quota, lastStep, out, files, log, calc>>

EventsResponse ==
    /\ pc = "events_wait"
    /\ \E r \in EventResponses :
        /\ Answer(r)
        /\ acc' = acc \o EventsOfResponse(r, EVENT_CITIES[loop.i])
        /\ loop' = [loop EXCEPT !.i = @ + 1]
        /\ lastStep' = [i |-> loop.i, resp |-> r, before |-> Len(acc)]
    /\ pc' = "events_req"
    /\ UNCHANGED <<env, today, token, nreq, out, files, log, calc>>

EventsReturn ==
    /\ pc = "events_req"
    /\ loop.i > Len(EVENT_CITIES)
    /\ Return("events", EventsResult(acc, today), <<>>)
    /\ UNCHANGED <<env, today, token, loop, acc, inflight, nreq, quota, lastStep, files, calc>>

NextEvents ==
    \/ FetchEventsStart
    \/ EventsRequest
    \/ EventsResponse
    \/ EventsReturn

----------------------------------------------------------------------------
(* fetch_dining_foursquare (kind "dining") and fetch_bars_foursquare (kind "bars") *)

PcReq(kind) == IF kind = "dining" THEN "dining_req" ELSE "bars_req"
PcWait(kind) == IF kind = "dining" THEN "dining_wait" ELSE "bars_wait"

FetchPlacesStart(kind) ==
    /\ pc = kind
    /\ IF ~env.foursquare
       THEN /\ Return(kind, <<>>, << <<"call", kind>> >>)
            /\ Forget
       ELSE /\ loop' = [i |-> 1, ok |-> 0]
            /\ acc' = <<>>
            /\ lastStep' = NoStep
            /\ pc' = PcReq(kind)
            /\ log' = Append(log, <<"call", kind>>)
            /\ UNCHANGED out
    /\ UNCHANGED <<env, today, token, inflight, nreq, quota, files, calc>>

PlacesRequest(kind) ==
    /\ pc = PcReq(kind)
    /\ loop.i <= Len(PLACE_CITIES)
    /\ Issue
    /\ pc' = PcWait(kind)
    /\ UNCHANGED <<env, today, token, loop, acc, quota, lastStep, out, files, log, calc>>

PlacesResponse(kind) ==
    /\ pc = PcWait(kind)
    /\ \E r \in PlaceResponses :
        /\ Answer(r)
        /\ acc' = acc \o PlacesOfResponse(r, PLACE_CITIES[loop.i], kind)
        /\ loop' = [loop EXCEPT !.i = @ + 1]
        /\ lastStep' = [i |-> loop.i, resp |-> r, before |-> Len(acc)]
    /\ pc' = PcReq(kind)
    /\ UNCHANGED <<env, today, token, nreq, out, files, log, calc>>

PlacesReturn(kind) ==
    /\ pc = PcReq(kind)
    /\ loop.i > Len(PLACE_CITIES)
    /\ Return(kind, acc, <<>>)
    /\ UNCHANGED <<env, today, token, loop, acc, inflight, nreq, quota, lastStep, files, calc>>

FetchDining ==
    \/ FetchPlacesStart("dining")
    \/ PlacesRequest("dining")
    \/ PlacesResponse("dining")
    \/ PlacesReturn("dining")

FetchBars ==
    \/ FetchPlacesStart("bars")
    \/ PlacesRequest("bars")
    \/ PlacesResponse("bars")
    \/ PlacesReturn("bars")

----------------------------------------------------------------------------
(* save_data: the six writes *)

WriteFile ==
    /\ pc = "write"
    /\ LET name == OutputFiles[Len(files) + 1]
       IN  /\ files' = Append(files, [name |-> name, doc |-> Document(name, out)])
           /\ log' = Append(log, <<"write", name>>)
    /\ pc' = IF Len(files) + 1 = Len(OutputFiles) THEN "done" ELSE "write"
    /\ Forget
    /\ UNCHANGED <<env, today, token, inflight, nreq, quota, out, calc>>

Next ==
    \/ NextFlights
    \/ FetchHotels
    \/ NextEvents
    \/ FetchDining
    \/ FetchBars
    \/ WriteFile

Spec == Init /\ [][Next]_vars

SpecFlights == InitFlights /\ [][NextFlights]_vars

----------------------------------------------------------------------------
(* The deal scorer on its own: one offer of every price up to MaxPriceCents *)

NoEnv == [amadeusKey |-> FALSE, amadeusSecret |-> FALSE, ticketmaster |-> FALSE,
          foursquare |-> FALSE]

InitScore ==
    \E p \in 0..MaxPriceCents, d \in Todays :
        Start(NoEnv, d, 0, [NoCalc EXCEPT !.price = p])

\* the try block of fetch_flights applied to a response whose first offer costs calc.price
ScoreOffer ==
    /\ calc.price >= 0
    /\ ~calc.scored
    /\ calc' = [calc EXCEPT !.scored = TRUE,
                            !.deals = RouteDeals(1, Body(<<Offer(TRUE, calc.price, <<"NK">>)>>), today)]
    /\ UNCHANGED <<env, today, pc, token, loop, acc, inflight, nreq, quota, lastStep, out, files, log>>

SpecScore == InitScore /\ [][ScoreOffer]_vars

----------------------------------------------------------------------------
(* The weekend computations on their own: every day up to MaxDay *)

InitDates == \E d \in 0..MaxDay : Start(NoEnv, d, 0, NoCalc)

\* fetch_flights: depart and return_date of each weekend
LiveWeekends ==
    /\ calc.liveDates = <<>>
    /\ calc' = [calc EXCEPT !.liveDates =
                    [week \in 1..NumWeekends |-> <<LiveFriday(today, week), LiveSunday(today, week)>>]]
    /\ UNCHANGED <<env, today, pc, token, loop, acc, inflight, nreq, quota, lastStep, out, files, log>>

\* generate_sample_flights: the dates of its records
SampleWeekend ==
    /\ calc.sampleDates = <<>>
    /\ calc' = [calc EXCEPT !.sampleDates =
                    <<generate_sample_flights(today)[1].departureDate,
                      generate_sample_flights(today)[1].returnDate>>]
    /\ UNCHANGED <<env, today, pc, token, loop, acc, inflight, nreq, quota, lastStep, out, files, log>>

\* fetch_hotels: checkIn and checkOut of its records
HotelWeekend ==
    /\ calc.hotelDates = <<>>
    /\ calc' = [calc EXCEPT !.hotelDates =
                    <<fetch_hotels(today)[1].checkIn, fetch_hotels(today)[1].checkOut>>]
    /\ UNCHANGED <<env, today, pc, token, loop, acc, inflight, nreq, quota, lastStep, out, files, log>>

NextDates ==
    \/ LiveWeekends
    \/ SampleWeekend
    \/ HotelWeekend

SpecDates == InitDates /\ [][NextDates]_vars

----------------------------------------------------------------------------
(* Properties *)

FileNames == [k \in 1..Len(files) |-> files[k].name]

SixDocuments ==
    <<"deals_data.json", "hotels_data.json", "events_data.json", "dining_data.json",
      "bars_data.json", "metadata.json">>

\* fetch_flights has just ended, by returning or by raising: its locals are still in place
FlightsJustOver == pc = "hotels" \/ pc = "crashed"

SampleSet == generate_sample_flights(today)

IsPrefix(s, t) == Len(s) <= Len(t) /\ s = SubSeq(t, 1, Len(s))

Range(s) == {s[k] : k \in 1..Len(s)}

\* C1: no upstream error is fatal: whatever the credentials and whatever the
\* upstreams answer, no exception escapes save_data, and a run that has ended has
\* written the six documents.
C1_NoUpstreamErrorIsFatal ==
    /\ pc # "crashed"
    /\ (~ENABLED Next) => (pc = "done" /\ FileNames = SixDocuments)

\* C2: a flight search that fails (transport error, non-200 status, malformed
\* JSON, missing field, an offer the scorer cannot divide by) never aborts the
\* fetch: the loop goes on to the next triple, every triple is queried once, and
\* a triple answered with a well-formed first offer adds exactly one deal, for
\* that triple and that offer, whatever the other triples were answered.
WellFormedOffer(r) ==
    /\ ~r.err /\ r.status = HttpOk /\ r.json /\ r.data # <<>>
    /\ r.data[1].hasTotal /\ r.data[1].total # 0 /\ r.data[1].airlines # <<>>

C2_RouteFailureIsolated ==
    /\ pc \in {"route_req", "route_wait"} =>
          /\ loop.i \in 1..(NumTriples + 1)
          /\ nreq = loop.i + inflight
          /\ Len(acc) = loop.ok
    /\ (pc = "route_req" /\ lastStep.i > 0) =>
          /\ loop.i = lastStep.i + 1
          /\ IF WellFormedOffer(lastStep.resp)
             THEN /\ Len(acc) = lastStep.before + 1
                  /\ acc[Len(acc)].origin = OriginOf(lastStep.i)
                  /\ acc[Len(acc)].destination = DestOf(lastStep.i)
                  /\ acc[Len(acc)].departureDate = today + DaysToFriday(today) + 7 * (WeekOf(lastStep.i) - 1)
                  /\ acc[Len(acc)].price = lastStep.resp.data[1].total
             ELSE Len(acc) = lastStep.before
    /\ (pc = "hotels" /\ ~Falsy(token)) =>
          /\ loop.i = NumTriples + 1
          /\ nreq = NumTriples + 1
          /\ Len(acc) = loop.ok

\* the last triple failed on malformed JSON and two earlier triples still gave their deals
C2_Witness ==
    /\ pc = "hotels"
    /\ lastStep.resp = BadJson
    /\ Len(acc) = 2
    /\ Len(out.flights) = 2

\* C3: every FlightDeal fetch_flights returns, live or sample, satisfies
\* originalPrice = round(price * MARKUP, 2), savings = round(originalPrice - price, 2),
\* savingsPercent = round(100 * savings / originalPrice) and
\* isHot = (savingsPercent >= 35), for one markup MARKUP (tried in whole percents
\* from 100 to 300).
ScoredWith(d, markup) ==
    /\ d.originalPrice = RoundHalfEven(d.price * markup, 100)
    /\ d.savings = d.originalPrice - d.price
    /\ d.savingsPercent = RoundHalfEven(100 * d.savings, d.originalPrice)
    /\ d.isHot = (d.savingsPercent >= 35)

C3_AllDealsScored ==
    "flights" \in out.ret =>
        \E markup \in 100..300 : \A d \in Range(out.flights) : ScoredWith(d, markup)

\* C4: what fetch_flights returns has at most 50 records in non-increasing order
\* of savingsPercent, records of equal savingsPercent in discovery order.
C4_SortedAndCapped ==
    "flights" \in out.ret =>
        /\ Len(out.flights) <= 50
        /\ \A j \in 1..Len(out.flights), k \in 1..Len(out.flights) :
              j < k => out.flights[j].savingsPercent >= out.flights[k].savingsPercent

\* C5: fetch_flights returns the sample set exactly when no token is obtainable
\* or no route yielded a deal; with an empty id or secret it does so without any
\* HTTP request; otherwise it returns live records only, and never nothing.
C5_SampleIffNoTokenOrNoDeal ==
    FlightsJustOver =>
        /\ (out.flights = SampleSet) <=> (Falsy(token) \/ acc = <<>>)
        /\ ~HasAmadeusKeys => (out.flights = SampleSet /\ nreq = 0)
        /\ out.flights # <<>>
        /\ (~Falsy(token) /\ acc # <<>>) => Range(out.flights) \subseteq Range(acc)

\* C6: for every weekday of today the first Friday is 1..7 days ahead and is a
\* Friday (2 days from a Wednesday, 7 from a Friday), the k-th Friday is 7*(k-1)
\* days after the first, each Sunday is its Friday + 2, and the sample-flight and
\* hotel routines compute the first Friday of the live routine.
FirstFridayAfter(d) == CHOOSE f \in (d + 1)..(d + 7) : f % 7 = 4

C6_WeekendDates ==
    /\ calc.liveDates # <<>> =>
          /\ calc.liveDates[1][1] - today \in 1..7
          /\ calc.liveDates[1][1] % 7 = 4
          /\ (today % 7 = 2) => (calc.liveDates[1][1] = today + 2)
          /\ (today % 7 = 4) => (calc.liveDates[1][1] = today + 7)
          /\ \A k \in 1..Len(calc.liveDates) :
                /\ calc.liveDates[k][1] = calc.liveDates[1][1] + 7 * (k - 1)
                /\ calc.liveDates[k][2] = calc.liveDates[k][1] + 2
    /\ calc.sampleDates # <<>> =>
          /\ calc.sampleDates[1] = FirstFridayAfter(today)
          /\ calc.sampleDates[2] = calc.sampleDates[1] + 2
    /\ calc.hotelDates # <<>> =>
          /\ calc.hotelDates[1] = FirstFridayAfter(today)
          /\ calc.hotelDates[2] = calc.hotelDates[1] + 2
    /\ (calc.liveDates # <<>> /\ calc.sampleDates # <<>> /\ calc.hotelDates # <<>>) =>
          /\ calc.sampleDates[1] = calc.liveDates[1][1]
          /\ calc.hotelDates[1] = calc.liveDates[1][1]

\* today is a Friday and all three routines have computed the Friday a week ahead
C6_Witness ==
    /\ today % 7 = 4
    /\ calc.liveDates # <<>> /\ calc.sampleDates # <<>> /\ calc.hotelDates # <<>>
    /\ calc.liveDates[1][1] = today + 7
    /\ calc.liveDates[2] = <<today + 14, today + 16>>
    /\ calc.hotelDates = <<today + 7, today + 9>>

\* C7: with every credential absent, save_data issues no HTTP request and writes
\* six documents: flights, hotels and events hold their fixed sets, dining and
\* bars are empty, and metadata.json counts the arrays written in the same run.
NoCredentials ==
    ~env.amadeusKey /\ ~env.amadeusSecret /\ ~env.ticketmaster /\ ~env.foursquare

C7_NoCredentialsRun ==
    NoCredentials =>
        /\ nreq = 0 /\ inflight = 0
        /\ pc # "crashed"
        /\ pc = "done" =>
              /\ FileNames = SixDocuments
              /\ files[1].doc = generate_sample_flights(today)
              /\ files[2].doc = fetch_hotels(today)
              /\ files[3].doc = generate_sample_events(today)
              /\ files[4].doc = <<>>
              /\ files[5].doc = <<>>
              /\ files[6].doc.totalFlights = Len(files[1].doc)
              /\ files[6].doc.totalHotels = Len(files[2].doc)
              /\ files[6].doc.totalEvents = Len(files[3].doc)
              /\ files[6].doc.totalDining = Len(files[4].doc)
              /\ files[6].doc.totalBars = Len(files[5].doc)

\* the run without credentials has ended with its six documents
C7_Witness == NoCredentials /\ pc = "done" /\ Len(files) = 6 /\ files[6].doc.totalFlights = 3

\* C8: every event of a successful city response becomes an EventRecord, a
\* missing venue name, local time, price range, segment or image replaced by
\* its placeholder; no event of the city is dropped for a missing field.
C8_EveryEventNormalized ==
    (pc = "events_req" /\ lastStep.i > 0 /\ IsPayload(lastStep.resp)) =>
        /\ Len(acc) = lastStep.before + Len(lastStep.resp.data)
        /\ \A k \in 1..Len(lastStep.resp.data) :
              acc[lastStep.before + k].name = lastStep.resp.data[k].name

\* C9: the fetchers run in the order flights, hotels, events, dining, bars, each
\* returning before the next is called; at most one HTTP request is outstanding,
\* and only inside a fetcher; no document is written before the five fetchers
\* have returned, and metadata.json is written last.
RunOrder ==
    << <<"call", "flights">>, <<"ret", "flights">>, <<"call", "hotels">>, <<"ret", "hotels">>,
       <<"call", "events">>, <<"ret", "events">>, <<"call", "dining">>, <<"ret", "dining">>,
       <<"call", "bars">>, <<"ret", "bars">>,
       <<"write", "deals_data.json">>, <<"write", "hotels_data.json">>,
       <<"write", "events_data.json">>, <<"write", "dining_data.json">>,
       <<"write", "bars_data.json">>, <<"write", "metadata.json">> >>

Completed == IF pc = "crashed" THEN SubSeq(log, 1, Len(log) - 1) ELSE log

C9_SequentialOrder ==
    /\ IsPrefix(Completed, RunOrder)
    /\ inflight \in {0, 1}
    /\ inflight = 1 => (log # <<>> /\ log[Len(log)][1] = "call")
    /\ files # <<>> => out.ret = {"flights", "hotels", "events", "dining", "bars"}
    /\ Len(files) = Cardinality({k \in 1..Len(log) : log[k][1] = "write"})
    /\ pc = "done" => files[Len(files)].name = "metadata.json"

\* a run that queried all four upstreams has ended with metadata.json written last
C9_Witness ==
    /\ pc = "done"
    /\ env.amadeusKey /\ env.amadeusSecret /\ env.ticketmaster /\ env.foursquare
    /\ nreq = 1 + NumTriples + Len(EVENT_CITIES) + 2 * Len(PLACE_CITIES)
    /\ log = RunOrder

\* C10: no deal built from a live offer is hot: for every positive price in
\* whole cents the scorer's savingsPercent is below 35 and isHot is false; a
\* price of 0 gives no record (the division raises and the route is skipped).
C10_LiveDealNeverHot ==
    calc.scored =>
        IF calc.price > 0
        THEN /\ Len(calc.deals) = 1
             /\ calc.deals[1].price = calc.price
             /\ calc.deals[1].savingsPercent < 35
             /\ calc.deals[1].isHot = FALSE
        ELSE calc.deals = <<>>

\* a two-cent offer scores the largest percentage, 33, and is not hot
C10_Witness ==
    /\ calc.scored /\ calc.price = 2
    /\ Len(calc.deals) = 1
    /\ calc.deals[1].savingsPercent = 33
    /\ ~calc.deals[1].isHot

====
